---- MODULE Spec2Model ----
(***************************************************************************)
(* BadRobot worker: the two /process handlers of the repository            *)
(* (src/server.js, the regeneration-only upload front end, and             *)
(* src/unnamed/part_000, the patch-regeneration worker) and their helper   *)
(* functions, as state machines over one request.                          *)
(*                                                                         *)
(* Bitmaps are records [width, height, data]; data is the row-major pixel  *)
(* sequence, one <<R, G, B, A>> tuple per pixel, so that the byte offset   *)
(* (y * width + x) * 4 of the source is the pixel index y * width + x.     *)
(* Blending arithmetic (gaussian, mask, composite) is not computed: the    *)
(* results of those calls carry their geometry only.                       *)
(***************************************************************************)
EXTENDS Integers, Sequences, FiniteSets, TLC

VARIABLES req, env, pc, loc, res, log

vars == <<req, env, pc, loc, res, log>>

\* ---------------------------------------------------------------- bounds
MaxW == 3
MaxH == 2
BoxSlack == 2
MaxBad == 1

\* the JavaScript null / undefined
Null == [null |-> TRUE]

\* no local of the handler is bound yet
NoLoc == [none |-> TRUE]

\* ---------------------------------------------------------------- bitmaps
Black == <<0, 0, 0, 255>>
Dim128 == <<128, 17, 128, 255>>
Green129 == <<0, 129, 0, 255>>
White == <<255, 255, 255, 255>>
Gray == <<90, 90, 90, 255>>
Blue == <<0, 0, 200, 255>>
Magenta == <<200, 0, 200, 255>>

MaskPixels == {Black, Dim128, Green129}

Max2(a, b) == IF a > b THEN a ELSE b
Min2(a, b) == IF a < b THEN a ELSE b

Uniform(w, h, p) == [width |-> w, height |-> h, data |-> [i \in 1..(w * h) |-> p]]

\* the pixel at column x, row y (both from 0)
PixelAt(bitmap, x, y) == bitmap.data[y * bitmap.width + x + 1]

\* a mask pixel is active when its brightest colour channel exceeds 128
ActiveMutGE(px) == Max2(px[1], Max2(px[2], px[3])) >= 128
Active(px) == Max2(px[1], Max2(px[2], px[3])) > 128

\* one iteration of the scan loops of maskBBox at pixel index i (row-major)
RECURSIVE maskBBoxScan(_, _, _)
maskBBoxScan(bitmap, i, acc) ==
  IF i >= bitmap.width * bitmap.height THEN acc
  ELSE LET x == i % bitmap.width
           y == i \div bitmap.width
           nxt == IF Active(bitmap.data[i + 1])
                  THEN [minX |-> IF x < acc.minX THEN x ELSE acc.minX,
                        minY |-> IF y < acc.minY THEN y ELSE acc.minY,
                        maxX |-> IF x > acc.maxX THEN x ELSE acc.maxX,
                        maxY |-> IF y > acc.maxY THEN y ELSE acc.maxY]
                  ELSE acc
       IN maskBBoxScan(bitmap, i + 1, nxt)

maskBBox(bitmap) ==
  LET acc == maskBBoxScan(bitmap, 0,
               [minX |-> bitmap.width, minY |-> bitmap.height, maxX |-> -1, maxY |-> -1])
  IN IF acc.maxX < 0 THEN Null
     ELSE [x |-> acc.minX, y |-> acc.minY,
           w |-> acc.maxX - acc.minX + 1, h |-> acc.maxY - acc.minY + 1]

clampBBoxMutNoFloor(bb, W, H) ==
  LET x == Max2(0, Min2(W - 1, bb.x))
      y == Max2(0, Min2(H - 1, bb.y))
  IN [x |-> x, y |-> y, w |-> Min2(W - x, bb.w), h |-> Min2(H - y, bb.h)]

clampBBox(bb, W, H) ==
  LET x == Max2(0, Min2(W - 1, bb.x))
      y == Max2(0, Min2(H - 1, bb.y))
      w == Max2(1, Min2(W - x, bb.w))
      h == Max2(1, Min2(H - y, bb.h))
  IN [x |-> x, y |-> y, w |-> w, h |-> h]

\* Jimp crop: the w x h window of the bitmap whose top-left pixel is (x, y)
Crop(bitmap, x, y, w, h) ==
  [width |-> w, height |-> h,
   data |-> [i \in 1..(w * h) |-> PixelAt(bitmap, x + ((i - 1) % w), y + ((i - 1) \div w))]]

\* Jimp resize. A bitmap that already has the target size keeps its pixels.
\* Every bitmap the requests below bring to a different size is of one
\* colour, on which all resampling kernels agree; the sampling written here
\* (nearest source pixel) is exact for those.
Resize(bitmap, w, h) ==
  IF bitmap.width = w /\ bitmap.height = h THEN bitmap
  ELSE [width |-> w, height |-> h,
        data |-> [i \in 1..(w * h) |->
                    PixelAt(bitmap, (((i - 1) % w) * bitmap.width) \div w,
                                    (((i - 1) \div w) * bitmap.height) \div h)]]

\* geometry of a bitmap whose pixels are not computed
Geometry(bitmap) == [width |-> bitmap.width, height |-> bitmap.height]

\* new Jimp(W, H, 0x00000000)
NewCanvas(W, H) == [width |-> W, height |-> H]

\* Jimp composite: blends src onto dst at an offset, clipping src; the
\* destination bitmap keeps its own size
CompositeMutGrow(dst, src, x, y) == [width |-> src.width, height |-> src.height]
Composite(dst, src, x, y) == [width |-> dst.width, height |-> dst.height]

\* feather: a blurred clone of the mask, same size
feather(mask, radius) == [width |-> mask.width, height |-> mask.height]

\* Jimp mask: scales the alpha of dst by the brightness of src; size unchanged
MaskWith(dst, src, x, y) == [width |-> dst.width, height |-> dst.height]

\* ---------------------------------------------------------------- uploads
\* A field name is the sequence of its "_"-separated parts, so that
\* name.startsWith(n + "_") and name.split("_").pop() are computed on parts.
SourceImage == <<"source", "image">>
ReferenceImage == <<"reference", "image">>
SourceMaskField(n) == <<"source", "mask", n>>
ReferenceMaskField(n) == <<"reference", "mask", n>>
Suffixes == {"0", "1"}

FieldNames ==
  {SourceImage, ReferenceImage}
    \cup { SourceMaskField(n) : n \in Suffixes }
    \cup { ReferenceMaskField(n) : n \in Suffixes }

\* n + "_" is a prefix of name
StartsWithField(name, n) ==
  Len(name) > Len(n) /\ SubSeq(name, 1, Len(n)) = n

IsMaskField(name) ==
  StartsWithField(name, <<"source", "mask">>) \/ StartsWithField(name, <<"reference", "mask">>)

\* bytes of an upload: an encoded bitmap, or bytes no codec can read
Garbage == [encoding |-> "garbage"]
Encoded(enc, bitmap) == [encoding |-> enc, bitmap |-> bitmap]

\* what a field holds when nothing is wrong with it
UsualBitmap(name) ==
  IF name = SourceImage THEN Uniform(MaxW, MaxH, Gray)
  ELSE IF name = ReferenceImage THEN Uniform(MaxW, MaxH, Blue)
  ELSE Uniform(MaxW, MaxH, White)

\* kinds of upload: "ok"; "gif" (readable bytes, MIME type off the allow-list);
\* "corrupt" (unreadable bytes); "blank" (an all-black mask)
BadKinds(name) == IF IsMaskField(name) THEN {"gif", "corrupt", "blank"} ELSE {"gif", "corrupt"}

UploadedFile(name, kind) ==
  [fieldname |-> name,
   mimetype |-> IF kind = "gif" THEN "image/gif" ELSE "image/png",
   buffer |-> IF kind = "corrupt" THEN Garbage
              ELSE Encoded(IF kind = "gif" THEN "gif" ELSE "png",
                           IF kind = "blank" THEN Uniform(MaxW, MaxH, Black)
                           ELSE UsualBitmap(name))]

\* upload orders: sequences of distinct field names
RECURSIVE OrdersOver(_)
OrdersOver(names) ==
  {<<>>} \cup UNION { { <<n>> \o s : s \in OrdersOver(names \ {n}) } : n \in names }

UploadOrders == OrdersOver(FieldNames)

\* uploads in any order and number, at most MaxBad of them not "ok":
\* s is the upload order, B the positions that are not "ok", kb their kinds
BadPositions(s) == { S \in SUBSET (DOMAIN s) : Cardinality(S) <= MaxBad }
KindsAt(s, B) == { f \in [B -> {"gif", "corrupt", "blank"}] : \A i \in B : f[i] \in BadKinds(s[i]) }
Uploads(s, B, kb) == [i \in DOMAIN s |-> UploadedFile(s[i], IF i \in B THEN kb[i] ELSE "ok")]

\* --------------------------------------------------- codecs and errors
\* sharp(buffer).png().toBuffer() rejects bytes it cannot read
Unreadable(buffer) == buffer.encoding = "garbage"

\* toPNG: the same bitmap, PNG-encoded (PNG is lossless)
toPNG(buffer) == Encoded("png", buffer.bitmap)

\* sharp(buffer).jpeg({quality}): same geometry; the lossy pixels are not computed
toJPEG(buffer) == Encoded("jpeg", Geometry(buffer.bitmap))

CodecError == [message |-> "Input buffer contains unsupported image format"]
badRequest(detail) == [message |-> detail, status |-> 400]
unsupported(detail) == [message |-> detail, status |-> 415]

okTypes == {"image/png", "image/jpeg", "image/jpg", "image/webp"}

Converted(name, ok) == [op |-> "toPNG", field |-> name, ok |-> ok]

\* req.files[name] of server.js: the file uploaded under that field, or undefined
FilesOf(files, name) == SelectSeq(files, LAMBDA f : f.fieldname = name)

\* ensureFiles: the first required field without a file, or Null
ensureFiles(files, fields) ==
  LET missing == SelectSeq(fields, LAMBDA f : Len(FilesOf(files, f)) = 0)
  IN IF Len(missing) = 0 THEN Null ELSE badRequest(<<"Missing file", missing[1]>>)

\* parseInt(name.split("_").pop() || "0", 10) on the suffixes in use
parseInt(t) == CASE t = "0" -> 0 [] t = "1" -> 1 [] t = "2" -> 2 [] t = "3" -> 3
suffixOf(name) == LET last == name[Len(name)] IN parseInt(IF last = "" THEN "0" ELSE last)

\* entries.sort((a, b) => ai - bi): Array.prototype.sort is stable, so an
\* entry goes behind every entry whose suffix is not larger
RECURSIVE sortBySuffix(_)
sortBySuffix(entries) ==
  IF Len(entries) <= 1 THEN entries
  ELSE LET e == entries[Len(entries)]
           front == sortBySuffix(SubSeq(entries, 1, Len(entries) - 1))
           le == SelectSeq(front, LAMBDA f : suffixOf(f.fieldname) <= suffixOf(e.fieldname))
           gt == SelectSeq(front, LAMBDA f : suffixOf(f.fieldname) > suffixOf(e.fieldname))
       IN le \o <<e>> \o gt

\* listMasks: the files whose field starts with the prefix, by numeric suffix
listMasks(files, prefix) ==
  sortBySuffix(SelectSeq(files, LAMBDA f : StartsWithField(f.fieldname, prefix)))

\* regeneratePatchWithGemini of server.js: Buffer.from(sourcePNG)
regeneratePatchWithGemini(sourcePNG, refPNG, pairs, mode) == sourcePNG

\* the global error handler of server.js
errorHandler(err) ==
  LET status == IF "status" \in DOMAIN err THEN err.status ELSE 500
  IN [status |-> status, type |-> "json",
      error |-> IF status = 400 THEN "Bad Request"
                ELSE IF status = 415 THEN "Unsupported Media Type"
                ELSE "Processing failed",
      detail |-> err.message]

\* ------------------------------------------- server.js: POST /process
\* The multer middleware is outside the model: req.files is the collection
\* of uploaded files, in upload order, one file per field name.

\* steps 1-3 of the handler: the first check that throws, or Null
validationError(files) ==
  LET missing == ensureFiles(files, <<SourceImage, ReferenceImage>>)
  IN IF missing # Null THEN missing
     ELSE LET sourceFile == FilesOf(files, SourceImage)[1]
              refFile == FilesOf(files, ReferenceImage)[1]
              sourceMasks == listMasks(files, <<"source", "mask">>)
              refMasks == listMasks(files, <<"reference", "mask">>)
          IN IF sourceFile.mimetype \notin okTypes
               THEN unsupported(<<"Unsupported file type for source_image", sourceFile.mimetype>>)
             ELSE IF refFile.mimetype \notin okTypes
               THEN unsupported(<<"Unsupported file type for reference_image", refFile.mimetype>>)
             ELSE IF Len(sourceMasks) = 0 \/ Len(refMasks) = 0
               THEN badRequest(<<"No masks found">>)
             ELSE IF Len(sourceMasks) # Len(refMasks)
               THEN badRequest(<<"Mask count mismatch", Len(sourceMasks), Len(refMasks)>>)
             ELSE Null

\* next(err): the error handler answers and the request is over
SrvFail(err) ==
  /\ res' = errorHandler(err)
  /\ pc' = "done"

SrvValidate ==
  /\ pc = "srv_validate"
  /\ LET err == validationError(req.files)
     IN IF err # Null
          THEN SrvFail(err) /\ UNCHANGED <<loc, log>>
          ELSE /\ loc' = [sourceFile |-> FilesOf(req.files, SourceImage)[1],
                          refFile |-> FilesOf(req.files, ReferenceImage)[1],
                          sourceMasks |-> listMasks(req.files, <<"source", "mask">>),
                          refMasks |-> listMasks(req.files, <<"reference", "mask">>)]
               /\ pc' = "srv_sourcePNG"
               /\ UNCHANGED <<res, log>>
  /\ UNCHANGED <<req, env>>

SrvSourcePNG ==
  /\ pc = "srv_sourcePNG"
  /\ IF Unreadable(loc.sourceFile.buffer)
       THEN /\ SrvFail(CodecError)
            /\ log' = Append(log, Converted(SourceImage, FALSE))
            /\ UNCHANGED loc
       ELSE /\ loc' = loc @@ [sourcePNG |-> toPNG(loc.sourceFile.buffer)]
            /\ log' = Append(log, Converted(SourceImage, TRUE))
            /\ pc' = "srv_refPNG"
            /\ UNCHANGED res
  /\ UNCHANGED <<req, env>>

SrvRefPNG ==
  /\ pc = "srv_refPNG"
  /\ IF Unreadable(loc.refFile.buffer)
       THEN /\ SrvFail(CodecError)
            /\ log' = Append(log, Converted(ReferenceImage, FALSE))
            /\ UNCHANGED loc
       ELSE /\ loc' = loc @@ [refPNG |-> toPNG(loc.refFile.buffer), pairs |-> <<>>, i |-> 0]
            /\ log' = Append(log, Converted(ReferenceImage, TRUE))
            /\ pc' = "srv_sMaskPNG"
            /\ UNCHANGED res
  /\ UNCHANGED <<req, env>>

\* loop body up to the first await: both MIME checks, then toPNG(sMask.buffer)
SrvSourceMaskPNG ==
  /\ pc = "srv_sMaskPNG"
  /\ LET sMask == loc.sourceMasks[loc.i + 1]
         rMask == loc.refMasks[loc.i + 1]
     IN IF sMask.mimetype \notin okTypes
          THEN SrvFail(unsupported(<<"source_mask", loc.i, sMask.mimetype>>))
               /\ UNCHANGED <<loc, log>>
        ELSE IF rMask.mimetype \notin okTypes
          THEN SrvFail(unsupported(<<"reference_mask", loc.i, rMask.mimetype>>))
               /\ UNCHANGED <<loc, log>>
        ELSE IF Unreadable(sMask.buffer)
          THEN /\ SrvFail(CodecError)
               /\ log' = Append(log, Converted(sMask.fieldname, FALSE))
               /\ UNCHANGED loc
        ELSE /\ loc' = [sMaskPNG |-> toPNG(sMask.buffer)] @@ loc
             /\ log' = Append(log, Converted(sMask.fieldname, TRUE))
             /\ pc' = "srv_rMaskPNG"
             /\ UNCHANGED res
  /\ UNCHANGED <<req, env>>

\* toPNG(rMask.buffer), pairs.push, i++ and the loop test
SrvReferenceMaskPNG ==
  /\ pc = "srv_rMaskPNG"
  /\ LET rMask == loc.refMasks[loc.i + 1]
     IN IF Unreadable(rMask.buffer)
          THEN /\ SrvFail(CodecError)
               /\ log' = Append(log, Converted(rMask.fieldname, FALSE))
               /\ UNCHANGED loc
          ELSE /\ loc' = [pairs |-> Append(loc.pairs,
                                      [index |-> loc.i,
                                       sourceMaskPNG |-> loc.sMaskPNG,
                                       referenceMaskPNG |-> toPNG(rMask.buffer)]),
                          i |-> loc.i + 1] @@ loc
               /\ log' = Append(log, Converted(rMask.fieldname, TRUE))
               /\ pc' = IF loc.i + 1 < Len(loc.sourceMasks) THEN "srv_sMaskPNG" ELSE "srv_regenerate"
               /\ UNCHANGED res
  /\ UNCHANGED <<req, env>>

\* the knobs and step 5: regeneratePatchWithGemini
SrvRegenerate ==
  /\ pc = "srv_regenerate"
  /\ LET mode == IF req.body.mode = "" THEN "auto" ELSE req.body.mode
         returnFormat == IF req.body.return_format = "" THEN "png" ELSE req.body.return_format
     IN loc' = [mode |-> mode, returnFormat |-> returnFormat,
                finalBuffer |-> regeneratePatchWithGemini(loc.sourcePNG, loc.refPNG,
                                                          loc.pairs, mode)] @@ loc
  /\ log' = Append(log, [op |-> "regenerate"])
  /\ pc' = "srv_encode"
  /\ UNCHANGED <<req, env, res>>

\* step 6: encode and send
SrvEncode ==
  /\ pc = "srv_encode"
  /\ res' = IF loc.returnFormat \in {"jpeg", "jpg"}
              THEN [status |-> 200, type |-> "image/jpeg", body |-> toJPEG(loc.finalBuffer)]
              ELSE [status |-> 200, type |-> "image/png", body |-> toPNG(loc.finalBuffer)]
  /\ pc' = "done"
  /\ UNCHANGED <<req, env, loc, log>>

\* an absent form field or environment variable reads as falsy: ""
NoKey == [GEMINI_API_KEY |-> ""]

InitServer ==
  /\ \E s \in UploadOrders : \E B \in BadPositions(s) : \E kb \in KindsAt(s, B) :
       \E f \in {"", "jpeg"} :
         req = [files |-> Uploads(s, B, kb), body |-> [mode |-> "", return_format |-> f]]
  /\ env = NoKey
  /\ pc = "srv_validate"
  /\ loc = NoLoc
  /\ res = Null
  /\ log = <<>>

NextServer ==
  \/ SrvValidate
  \/ SrvSourcePNG
  \/ SrvRefPNG
  \/ SrvSourceMaskPNG
  \/ SrvReferenceMaskPNG
  \/ SrvRegenerate
  \/ SrvEncode

SpecServer == InitServer /\ [][NextServer]_vars

\* -------------------------------------- part_000: POST /process
\* pick: the first uploaded file whose field is one of the names or starts
\* with one of them followed by "_"; null when there is none
pick(files, names) ==
  LET hits == SelectSeq(files, LAMBDA f :
                \E n \in names : f.fieldname = n \/ StartsWithField(f.fieldname, n))
  IN IF Len(hits) = 0 THEN Null ELSE hits[1]

SrcNames == {<<"sourceImage">>, <<"source", "image">>, <<"distorted">>, <<"base">>}
RefNames == {<<"referenceImage">>, <<"reference", "image">>, <<"reference">>, <<"clean">>}
ANames == {<<"sourceMask">>, <<"source", "mask">>, <<"mask">>, <<"maskA">>}
BNames == {<<"referenceMask">>, <<"reference", "mask">>, <<"maskB">>}

\* the answers the handler sends itself
WkAnswer(status, error, detail) ==
  [status |-> status, type |-> "json", error |-> error, detail |-> detail]

\* the catch block: 500 "Processing failed" with String(err)
WkCatch(err) == WkAnswer(500, "Processing failed", err.message)

\* the four sharp(...).png().toBuffer() calls in order: the conversions
\* logged up to and including the first that throws
RECURSIVE ConvertLog(_)
ConvertLog(fs) ==
  IF Len(fs) = 0 THEN <<>>
  ELSE IF Unreadable(fs[1].buffer) THEN <<Converted(fs[1].fieldname, FALSE)>>
  ELSE <<Converted(fs[1].fieldname, TRUE)>> \o ConvertLog(Tail(fs))

\* Jimp.read of a PNG buffer
JimpRead(buffer) == buffer.bitmap

\* base.clone()
Clone(bitmap) == bitmap

WkPick ==
  /\ pc = "wk_pick"
  /\ LET srcFile == pick(req.files, SrcNames)
         refFile == pick(req.files, RefNames)
         aFile == pick(req.files, ANames)
         bFile == pick(req.files, BNames)
     IN IF srcFile = Null \/ refFile = Null \/ aFile = Null \/ bFile = Null
          THEN /\ res' = WkAnswer(400, "Missing files", "")
               /\ pc' = "done"
               /\ UNCHANGED loc
          ELSE /\ loc' = [srcFile |-> srcFile, refFile |-> refFile,
                          aFile |-> aFile, bFile |-> bFile]
               /\ pc' = "wk_decode"
               /\ UNCHANGED res
  /\ UNCHANGED <<req, env, log>>

\* lines 72-83: convert to PNG, read the bitmaps, bring ref and masks to W x H
WkDecode ==
  /\ pc = "wk_decode"
  /\ LET fs == <<loc.srcFile, loc.refFile, loc.aFile, loc.bFile>>
     IN /\ log' = log \o ConvertLog(fs)
        /\ IF \E i \in 1..4 : Unreadable(fs[i].buffer)
             THEN /\ res' = WkCatch(CodecError)
                  /\ pc' = "done"
                  /\ UNCHANGED loc
             ELSE LET base == JimpRead(toPNG(loc.srcFile.buffer))
                      W == base.width
                      H == base.height
                  IN /\ loc' = [base |-> base, W |-> W, H |-> H,
                                ref |-> Resize(JimpRead(toPNG(loc.refFile.buffer)), W, H),
                                maskA |-> Resize(JimpRead(toPNG(loc.aFile.buffer)), W, H),
                                maskB |-> Resize(JimpRead(toPNG(loc.bFile.buffer)), W, H)] @@ loc
                     /\ pc' = "wk_bbox"
                     /\ UNCHANGED res
  /\ UNCHANGED <<req, env>>

\* lines 85-92: bounding boxes, the empty-mask answer, clamping and the crops
WkBBox ==
  /\ pc = "wk_bbox"
  /\ LET bbA == maskBBox(loc.maskA)
         bbB == maskBBox(loc.maskB)
     IN IF bbA = Null \/ bbB = Null
          THEN /\ res' = WkAnswer(400, "Empty mask", "")
               /\ pc' = "done"
               /\ UNCHANGED loc
          ELSE LET A == clampBBox(bbA, loc.W, loc.H)
                   B == clampBBox(bbB, loc.W, loc.H)
               IN /\ loc' = [bbA |-> bbA, bbB |-> bbB, A |-> A, B |-> B,
                             refCrop |-> Resize(Crop(Clone(loc.ref), B.x, B.y, B.w, B.h), A.w, A.h),
                             distortedPatch |-> Crop(Clone(loc.base), A.x, A.y, A.w, A.h)] @@ loc
                  /\ pc' = "wk_apiKey"
                  /\ UNCHANGED res
  /\ UNCHANGED <<req, env, log>>

\* lines 94-101: the API key, the client and the two patch buffers
WkApiKey ==
  /\ pc = "wk_apiKey"
  /\ IF env.GEMINI_API_KEY = ""
       THEN /\ res' = WkAnswer(500, "Missing GEMINI_API_KEY", "")
            /\ pc' = "done"
            /\ UNCHANGED loc
       ELSE /\ loc' = [refCropBuf |-> Encoded("png", loc.refCrop),
                       distortedBuf |-> Encoded("png", loc.distortedPatch)] @@ loc
            /\ pc' = "wk_generate"
            /\ UNCHANGED res
  /\ UNCHANGED <<req, env, log>>

\* what model.generateContent can do: throw (network, quota), or answer with
\* parts: none, text only, or an inline image of any size or unreadable bytes
TextPart == [text |-> "ok"]
ImagePart(buffer) == [inlineData |-> [data |-> buffer]]
GenerateErrors == { [message |-> "fetch failed"], [message |-> "429 quota exceeded"] }
PatchDims == {<<1, 1>>, <<MaxW, MaxH>>}
GenerateAnswers ==
  {<<>>, <<TextPart>>, <<TextPart, ImagePart(Garbage)>>}
    \cup { <<TextPart, ImagePart(Encoded("png", Uniform(d[1], d[2], Magenta)))>> : d \in PatchDims }

\* parts.find(p => p.inlineData?.data)
findImagePart(parts) ==
  LET hits == SelectSeq(parts, LAMBDA p : "inlineData" \in DOMAIN p)
  IN IF Len(hits) = 0 THEN Null ELSE hits[1]

\* lines 105-115: the call of the external model and the search for an image
WkGenerate ==
  /\ pc = "wk_generate"
  /\ \/ \E err \in GenerateErrors :
          /\ res' = WkCatch(err)
          /\ log' = Append(log, [op |-> "generateContent", ok |-> FALSE])
          /\ pc' = "done"
          /\ UNCHANGED loc
     \/ \E parts \in GenerateAnswers :
          LET imgPart == findImagePart(parts)
          IN /\ log' = Append(log, [op |-> "generateContent", ok |-> TRUE])
             /\ IF imgPart = Null
                  THEN /\ res' = WkAnswer(502, "Model returned no image", "")
                       /\ pc' = "done"
                       /\ UNCHANGED loc
                  ELSE /\ loc' = [nanoPatchBuf |-> imgPart.inlineData.data] @@ loc
                       /\ pc' = "wk_composite"
                       /\ UNCHANGED res
  /\ UNCHANGED <<req, env>>

\* lines 117-127: read and resize the patch, composite, mask, composite, send
WkComposite ==
  /\ pc = "wk_composite"
  /\ IF Unreadable(loc.nanoPatchBuf)
       THEN /\ res' = WkCatch([message |-> "Could not find MIME for Buffer"])
            /\ pc' = "done"
            /\ UNCHANGED <<loc, log>>
       ELSE LET nanoPatch == Resize(JimpRead(loc.nanoPatchBuf), loc.A.w, loc.A.h)
                refPatchCanvas == Composite(NewCanvas(loc.W, loc.H), nanoPatch, loc.A.x, loc.A.y)
                feathered == feather(loc.maskA, 4)
                masked == MaskWith(refPatchCanvas, feathered, 0, 0)
                out == Composite(Clone(loc.base), masked, 0, 0)
            IN /\ loc' = [nanoPatch |-> nanoPatch, out |-> out] @@ loc
               /\ log' = Append(log, [op |-> "composite", mask |-> loc.aFile.fieldname])
               /\ res' = [status |-> 200, type |-> "image/png", body |-> Encoded("png", out)]
               /\ pc' = "done"
  /\ UNCHANGED <<req, env>>

\* requests of the usual four files whose bitmaps vary in size and shape
Dims == (1..MaxW) \X (1..MaxH)
OtherDims(d) == PatchDims \ {d}

\* a white w x h rectangle at (x, y) on a black W x H mask
RectMask(W, H, x, y, w, h) ==
  [width |-> W, height |-> H,
   data |-> [i \in 1..(W * H) |->
               IF /\ x <= (i - 1) % W /\ (i - 1) % W < x + w
                  /\ y <= (i - 1) \div W /\ (i - 1) \div W < y + h
               THEN White ELSE Black]]

\* masks for a W x H base: every rectangle, the empty mask, and one-colour
\* masks of another size
MasksFor(W, H) ==
  { RectMask(W, H, x, y, w, h) :
      <<x, y, w, h>> \in { b \in (0..(W - 1)) \X (0..(H - 1)) \X (1..W) \X (1..H) :
                             b[1] + b[3] <= W /\ b[2] + b[4] <= H } }
    \cup {Uniform(W, H, Black)}
    \cup { Uniform(d[1], d[2], p) : d \in OtherDims(<<W, H>>), p \in {White, Black} }

PngFile(name, bitmap) ==
  [fieldname |-> name, mimetype |-> "image/png", buffer |-> Encoded("png", bitmap)]

FormBody == [mode |-> "", return_format |-> ""]

InitWorker ==
  /\ \/ \E s \in UploadOrders : \E B \in BadPositions(s) : \E kb \in KindsAt(s, B) :
          req = [files |-> Uploads(s, B, kb), body |-> FormBody]
     \/ \E d \in Dims : \E r \in {d} \cup OtherDims(d) :
          \E a \in MasksFor(d[1], d[2]) : \E b \in MasksFor(d[1], d[2]) :
            req = [files |-> << PngFile(SourceImage, Uniform(d[1], d[2], Gray)),
                                PngFile(ReferenceImage, Uniform(r[1], r[2], Blue)),
                                PngFile(SourceMaskField("0"), a),
                                PngFile(ReferenceMaskField("0"), b) >>,
                   body |-> FormBody]
  /\ env \in { [GEMINI_API_KEY |-> k] : k \in {"", "key"} }
  /\ pc = "wk_pick"
  /\ loc = NoLoc
  /\ res = Null
  /\ log = <<>>

NextWorker ==
  \/ WkPick
  \/ WkDecode
  \/ WkBBox
  \/ WkApiKey
  \/ WkGenerate
  \/ WkComposite

SpecWorker == InitWorker /\ [][NextWorker]_vars

\* ------------------------------------------------- maskBBox on its own
InitBBox ==
  /\ \E w \in 1..MaxW : \E h \in 1..MaxH : \E d \in [1..(w * h) -> MaskPixels] :
       req = [mask |-> [width |-> w, height |-> h, data |-> d]]
  /\ env = Null
  /\ pc = "call"
  /\ loc = NoLoc
  /\ res = Null
  /\ log = <<>>

CallMaskBBox ==
  /\ pc = "call"
  /\ "mask" \in DOMAIN req
  /\ res' = [bbox |-> maskBBox(req.mask)]
  /\ pc' = "returned"
  /\ UNCHANGED <<req, env, loc, log>>

SpecBBox == InitBBox /\ [][CallMaskBBox]_vars

\* ------------------------------------------------- clampBBox on its own
BoxCoords == (0 - BoxSlack)..(MaxW + BoxSlack)

InitClamp ==
  /\ \E x \in BoxCoords : \E y \in BoxCoords : \E w \in BoxCoords : \E h \in BoxCoords :
       \E W \in 1..MaxW : \E H \in 1..MaxH :
         req = [bb |-> [x |-> x, y |-> y, w |-> w, h |-> h], W |-> W, H |-> H]
  /\ env = Null
  /\ pc = "call"
  /\ loc = NoLoc
  /\ res = Null
  /\ log = <<>>

CallClampBBox ==
  /\ pc = "call"
  /\ "bb" \in DOMAIN req
  /\ res' = [bbox |-> clampBBox(req.bb, req.W, req.H)]
  /\ pc' = "returned"
  /\ UNCHANGED <<req, env, loc, log>>

SpecClamp == InitClamp /\ [][CallClampBBox]_vars

\* ---------------------------------------------------------------- C3
\* the pixels with a colour channel above 128, read off the pixel data
BrightCells(m) ==
  { <<x, y>> \in (0..(m.width - 1)) \X (0..(m.height - 1)) :
      \E c \in 1..3 : PixelAt(m, x, y)[c] > 128 }

TightBox(m, b) ==
  /\ \A c \in BrightCells(m) :
       /\ b.x <= c[1] /\ c[1] <= b.x + b.w - 1
       /\ b.y <= c[2] /\ c[2] <= b.y + b.h - 1
  /\ \E c \in BrightCells(m) : c[1] = b.x
  /\ \E c \in BrightCells(m) : c[1] = b.x + b.w - 1
  /\ \E c \in BrightCells(m) : c[2] = b.y
  /\ \E c \in BrightCells(m) : c[2] = b.y + b.h - 1

\* C3: maskBBox returns null exactly when no pixel has max(R,G,B) > 128 (a
\* brightest channel of exactly 128 is not active), and otherwise the tight
\* bounding box of the active pixels: all of them inside, one on each edge.
C3_TightBBox ==
  (pc = "returned" /\ "mask" \in DOMAIN req) =>
     /\ (res.bbox = Null) <=> (BrightCells(req.mask) = {})
     /\ (res.bbox # Null) => TightBox(req.mask, res.bbox)

\* a mask with a 128 pixel, an inactive column between two active ones
C3_Witness ==
  /\ pc = "returned" /\ "mask" \in DOMAIN req
  /\ res.bbox # Null
  /\ res.bbox.w = 3
  /\ \E i \in DOMAIN req.mask.data : req.mask.data[i] = Dim128
  /\ \A y \in 0..(req.mask.height - 1) : ~Active(PixelAt(req.mask, 1, y))

\* ---------------------------------------------------------------- C4
\* C4: for W, H >= 1 and any integer box, clampBBox returns a box with
\* 0 <= x' <= W-1, 0 <= y' <= H-1, w' >= 1, h' >= 1, x'+w' <= W, y'+h' <= H.
C4_ClampInside ==
  (pc = "returned" /\ "bb" \in DOMAIN req) =>
     LET b == res.bbox IN
     /\ 0 <= b.x /\ b.x <= req.W - 1
     /\ 0 <= b.y /\ b.y <= req.H - 1
     /\ b.w >= 1 /\ b.h >= 1
     /\ b.x + b.w <= req.W
     /\ b.y + b.h <= req.H

\* a box that starts left of the canvas, has zero width and overshoots below
C4_Witness ==
  /\ pc = "returned" /\ "bb" \in DOMAIN req
  /\ req.bb.x < 0 /\ req.bb.w = 0
  /\ req.bb.y + req.bb.h > req.H /\ req.bb.y > 0
  /\ res.bbox.w = 1

\* ---------------------------------------------------------------- C1
\* the bitmap uploaded as the base image of the request in flight
BaseUpload == loc.srcFile.buffer.bitmap

\* C1: whenever the worker's /process handler returns an image, the image has
\* exactly the width and height of the base image, whatever the sizes of the
\* reference, the masks and the patch the model returned.
C1_CanvasSize ==
  (pc = "done" /\ res.status = 200 /\ "srcFile" \in DOMAIN loc) =>
     /\ res.body.bitmap.width = BaseUpload.width
     /\ res.body.bitmap.height = BaseUpload.height

\* an image is returned for a reference and a reference mask of another size
\* than the base, a source region smaller than the canvas and a returned
\* patch of another size than that region
C1_Witness ==
  /\ pc = "done" /\ res.status = 200 /\ "out" \in DOMAIN loc
  /\ Geometry(loc.refFile.buffer.bitmap) # Geometry(BaseUpload)
  /\ Geometry(loc.bFile.buffer.bitmap) # Geometry(BaseUpload)
  /\ loc.A.w < loc.W /\ loc.A.h < loc.H /\ loc.A.x > 0
  /\ loc.nanoPatchBuf.bitmap.width # loc.A.w

\* ---------------------------------------------------------------- C2
LastPart(name) == name[Len(name)]
Readable(files) == \A i \in DOMAIN files : ~Unreadable(files[i].buffer)
HasField(files, name) == \E i \in DOMAIN files : files[i].fieldname = name
FileOf(files, name) == files[CHOOSE i \in DOMAIN files : files[i].fieldname = name]

\* the numbered mask pairs of a request: both masks of the number uploaded
PairsOf(files) ==
  { n \in Suffixes : HasField(files, SourceMaskField(n)) /\ HasField(files, ReferenceMaskField(n)) }

\* no pixel of the mask is brighter than 128 in any channel once the mask has
\* the size of the base image
NoActivePixel(mask, base) ==
  LET m == Resize(mask, base.width, base.height)
  IN \A i \in DOMAIN m.data : \A c \in 1..3 : m.data[i][c] <= 128

\* both images uploaded, every file readable, every mask part of a pair
WellFormed(files) ==
  /\ HasField(files, SourceImage) /\ HasField(files, ReferenceImage)
  /\ Readable(files)
  /\ \A i \in DOMAIN files :
       IsMaskField(files[i].fieldname) => LastPart(files[i].fieldname) \in PairsOf(files)

HasEmptyPair(files) ==
  /\ WellFormed(files)
  /\ \E n \in PairsOf(files) : \E name \in {SourceMaskField(n), ReferenceMaskField(n)} :
       NoActivePixel(FileOf(files, name).buffer.bitmap, FileOf(files, SourceImage).buffer.bitmap)

Generated == \E i \in DOMAIN log : log[i].op = "generateContent"

\* C2: a request one of whose mask pairs has a mask without an active pixel
\* never has the generative model called for it, and ends with the
\* empty-mask error, not with an image.
C2_EmptyMaskFails ==
  (HasEmptyPair(req.files) /\ env.GEMINI_API_KEY # "") =>
     /\ ~Generated
     /\ pc = "done" => (res.status = 400 /\ res.error = "Empty mask")

\* ---------------------------------------------------------------- C5
Composites == SelectSeq(log, LAMBDA e : e.op = "composite")

TwoOverlappingPairs(files) ==
  /\ WellFormed(files)
  /\ PairsOf(files) = {"0", "1"}
  /\ \A n \in {"0", "1"} : \A name \in {SourceMaskField(n), ReferenceMaskField(n)} :
       /\ ~Unreadable(FileOf(files, name).buffer)
       /\ FileOf(files, name).buffer.bitmap = Uniform(MaxW, MaxH, White)

\* C5: when an image is returned for a request with two overlapping mask
\* pairs, both pairs were composited onto the canvas, pair 0 first and pair 1
\* on top of it.
C5_LastWriteWins ==
  (pc = "done" /\ res.status = 200 /\ TwoOverlappingPairs(req.files)) =>
     /\ Len(Composites) = 2
     /\ Composites[1].mask = SourceMaskField("0")
     /\ Composites[2].mask = SourceMaskField("1")

\* ---------------------------------------------------------------- C6
AllowedMime == {"image/png", "image/jpeg", "image/jpg", "image/webp"}

InvalidInput(files) ==
  LET sources == { i \in DOMAIN files : StartsWithField(files[i].fieldname, <<"source", "mask">>) }
      references == { i \in DOMAIN files : StartsWithField(files[i].fieldname, <<"reference", "mask">>) }
  IN \/ ~HasField(files, SourceImage)
     \/ ~HasField(files, ReferenceImage)
     \/ sources = {} \/ references = {}
     \/ Cardinality(sources) # Cardinality(references)
     \/ \E i \in DOMAIN files : files[i].mimetype \notin AllowedMime

\* C6: a request with an input validation error ends with status 400 or 415,
\* and nothing has been converted or regenerated when it is answered.
C6_ValidateFirst ==
  (pc = "done" /\ InvalidInput(req.files)) =>
     /\ res.status \in {400, 415}
     /\ log = <<>>

\* ---------------------------------------------------------------- C7
Class(r) == <<r.status, r.error>>

\* the model call threw, or answered without an image part
GenerationFailed ==
  /\ pc = "done"
  /\ WellFormed(req.files)
  /\ Len(log) > 0 /\ log[Len(log)].op = "generateContent"

\* C7: a failed generation ends in a 5xx answer whose class differs from the
\* class of a codec failure and of a missing configuration, and is no image.
C7_GenerationFailedClass ==
  GenerationFailed =>
     /\ res.status \in 500..599
     /\ res.type = "json"
     /\ Class(res) # <<500, "Processing failed">>
     /\ Class(res) # <<500, "Missing GEMINI_API_KEY">>

\* ---------------------------------------------------------------- C8
CodecFailed == \E i \in DOMAIN log : log[i].op = "toPNG" /\ ~log[i].ok

\* C8: a request one of whose files could not be decoded ends with a 4xx
\* status.
C8_CodecFailureIs4xx ==
  (pc = "done" /\ CodecFailed) => res.status \in 400..499

\* ---------------------------------------------------------------- C9
OneFullPair(files) ==
  /\ Cardinality({ i \in DOMAIN files : IsMaskField(files[i].fieldname) }) = 2
  /\ Cardinality(PairsOf(files)) = 1
  /\ \A i \in DOMAIN files : IsMaskField(files[i].fieldname) =>
       /\ ~Unreadable(files[i].buffer)
       /\ \A j \in DOMAIN files[i].buffer.bitmap.data : files[i].buffer.bitmap.data[j] = White

\* C9: an image produced without a call of the generative model, for one mask
\* pair that is active over the whole canvas, is the reference image.
C9_PassThroughCopiesReference ==
  (pc = "done" /\ res.status = 200 /\ res.type = "image/png" /\ ~Generated
     /\ OneFullPair(req.files)) =>
     res.body.bitmap = FileOf(req.files, ReferenceImage).buffer.bitmap

\* ---------------------------------------------------------------- C10
\* C10: once the pairs are built they are in ascending order of suffix, and
\* pair k joins the source mask and the reference mask of one suffix.
C10_PairsBySuffix ==
  ("pairs" \in DOMAIN loc /\ Len(loc.pairs) = Len(loc.sourceMasks)) =>
     /\ \A k \in DOMAIN loc.pairs :
          LastPart(loc.sourceMasks[loc.pairs[k].index + 1].fieldname)
            = LastPart(loc.refMasks[loc.pairs[k].index + 1].fieldname)
     /\ \A k \in 1..(Len(loc.sourceMasks) - 1) :
          suffixOf(loc.sourceMasks[k].fieldname) < suffixOf(loc.sourceMasks[k + 1].fieldname)

====
